---- MODULE Spec2Model ----
(***************************************************************************)
(* Visibility culling of the web-rts-vibe scene viewer: the culler         *)
(* registry (registerForCulling / updateBoundsFor / updateCulling) and the *)
(* scene-graph mutation interceptor (enableAutoCulling, the patched        *)
(* Object3D.add / Object3D.remove, disableAutoCulling).                    *)
(*                                                                         *)
(* Geometry is the source's 3-D geometry restricted to the camera axis:    *)
(* every object sits at (0, 0, z), a mesh's geometry is the segment        *)
(* z in [-1, 1], the camera looks down -z.  Spheres are stored doubled     *)
(* (c2 = 2 * center.z, r2 = 2 * radius) so that the centre of a box with   *)
(* odd extent stays an integer.                                            *)
(*                                                                         *)
(* The module also covers the render loop, the ground placer and the scene *)
(* switcher with the global ground placer that the scene setups create.    *)
(***************************************************************************)
EXTENDS Integers, Sequences, FiniteSets, TLC

\* ------------------------------------------------------------------ bounds
MaxEnables == 2    \* enableAutoCulling calls in one run
MaxHandles == 2    \* explicit registerForCulling calls in one run
MaxCoord   == 1    \* local z positions range over -MaxCoord .. MaxCoord
MaxFrames  == 3    \* iterations of the render loop in one run
MaxPlacements == 2 \* placeObject / placeObjectAt calls in one run
MaxQuery   == 5    \* ground queries at x, z in -MaxQuery .. MaxQuery
MaxSetups  == 3    \* scene setups run by the scene switcher in one run
MaxConfigUpdates == 2 \* updateConfig calls on one global ground placer

\* ------------------------------------------------------------ scene objects
\* A scene root, two groups and one mesh: enough for a mesh three levels
\* below a watched root and for a watched root nested under another.
Nodes == {"scene", "grp", "sub", "mesh"}
NoNode == "none"

\* THREE.Mesh sets isMesh; THREE.Group / THREE.Scene do not.
IsMesh(n) == n = "mesh"

VARIABLES
  parent,        \* Object3D.parent of every node (NoNode = null)
  children,      \* Object3D.children of every node, in array order
  pos,           \* local position.z of every node
  visible,       \* Object3D.visible of every node
  camZ,          \* world z of the camera
  entries,       \* the registry array `entries`
  handles,       \* the unregister closures returned by registerForCulling
  watchedRoots,  \* the WeakMap watchedRoots: node -> AutoState index, 0 = absent
  autoStates,    \* every AutoState created so far (closures keep them alive)
  patchedAddRemove, \* the flag of ensurePatched
  last,          \* the last operation performed and what it did (history)
  updates,       \* updateManager.updates: a Set, kept in insertion order
  frames,        \* render-loop iterations so far and the calls of the last one
  currentConfig, \* the ground placer's currentConfig
  objPos,        \* position of every placeable object
  glast,         \* the last ground placer call and what it returned (history)
  currentSceneIdx,    \* SceneSwitcher.currentSceneIdx
  currentCleanup,     \* SceneSwitcher.currentCleanup: a setup run, 0 = null
  currentGetSpawn,    \* SceneSwitcher.currentGetSpawn: a setup run, 0 = null
  setups,             \* every setup run so far and how often it was disposed
  placers,            \* every GroundPlacer the scene setups created
  globalGroundPlacer, \* the module variable of groundPlacement.ts, 0 = null
  store,              \* the global store's currentSceneIdx
  slast               \* the last scene switcher call (history)

sceneVars == <<parent, children, pos, visible, camZ>>
cullVars  == <<entries, handles, watchedRoots, autoStates, patchedAddRemove>>
frameVars == <<updates, frames>>
groundVars == <<currentConfig, objPos, glast>>
switchVars == <<currentSceneIdx, currentCleanup, currentGetSpawn, setups,
                placers, globalGroundPlacer, store, slast>>
vars == <<sceneVars, cullVars, last, frameVars, groundVars, switchVars>>

\* ------------------------------------------------------------ scene graph
RECURSIVE AncestorsOrSelf(_, _)
AncestorsOrSelf(n, par) ==
  IF n = NoNode THEN {} ELSE {n} \cup AncestorsOrSelf(par[n], par)

RECURSIVE Subtree(_, _)
Subtree(n, ch) ==
  {n} \cup UNION {Subtree(ch[n][i], ch) : i \in 1..Len(ch[n])}

RemoveAt(s, i) == SubSeq(s, 1, i - 1) \o SubSeq(s, i + 1, Len(s))

IndexOf(s, x) ==
  IF \E i \in 1..Len(s) : s[i] = x
  THEN CHOOSE i \in 1..Len(s) : s[i] = x /\ \A j \in 1..(i - 1) : s[j] # x
  ELSE 0

Min(S) == CHOOSE x \in S : \A y \in S : x <= y
Max(S) == CHOOSE x \in S : \A y \in S : x >= y

\* --------------------------------------------------------------- geometry
\* matrixWorld translation of n: the sum of the local positions up the chain
\* (computeBounds calls updateWorldMatrix(true, false) and Box3.setFromObject
\* refreshes every child before reading it, so the value is always current).
RECURSIVE WorldZ(_, _, _)
WorldZ(n, par, p) ==
  IF n = NoNode THEN 0 ELSE p[n] + WorldZ(par[n], par, p)

\* Object3D.scale is (2, 2, 1) for every object, so scale.length() is 3.
ScaleLength(n) == 3

\* Box3.setFromObject(obj): the union of the world boxes of the subtree's
\* meshes; empty when the subtree has no mesh.
BoxOf(obj, par, ch, p) ==
  LET ms == {m \in Subtree(obj, ch) : IsMesh(m)}
  IN  IF ms = {} THEN [empty |-> TRUE, lo |-> 0, hi |-> 0]
      ELSE [empty |-> FALSE,
            lo |-> Min({WorldZ(m, par, p) - 1 : m \in ms}),
            hi |-> Max({WorldZ(m, par, p) + 1 : m \in ms})]

\* computeBounds of registerForCulling (and its copies in updateBoundsFor and
\* updateCulling): the sphere of the box, or the fallback sphere, plus padding.
ComputeBounds(obj, padding, par, ch, p) ==
  LET b    == BoxOf(obj, par, ch, p)
      base == IF b.empty
              THEN [c2 |-> 2 * WorldZ(obj, par, p),
                    r2 |-> 2 * Max({1, ScaleLength(obj)})]
              ELSE [c2 |-> b.lo + b.hi, r2 |-> b.hi - b.lo]
  IN  [c2 |-> base.c2,
       r2 |-> IF padding # 0 THEN base.r2 + 2 * padding ELSE base.r2]

\* The camera of the runs: a perspective camera looking down -z whose frustum
\* spans depths 0.5 .. 1.5 in front of it (stored doubled, like the spheres).
Camera == [near2 |-> 1, far2 |-> 3]

\* A mutation: the far plane is not tested.
FrustumIntersectsSphere_noFar(c2, r2, cz) ==
  LET d2 == 2 * cz - c2
  IN  ~(d2 - Camera.near2 < -r2)

\* Frustum.intersectsSphere for a centre on the camera axis: the sphere is
\* outside when its centre is further than its radius behind a plane.  At
\* depth d the near plane is at distance d - near and the far plane at
\* far - d; the four side planes pass through the camera, where the near
\* plane already rejects whatever they reject.
FrustumIntersectsSphere(c2, r2, cz) ==
  LET d2 == 2 * cz - c2
  IN  /\ ~(d2 - Camera.near2 < -r2)
      /\ ~(Camera.far2 - d2 < -r2)

\* ---------------------------------------------------------------- registry
\* A CullEntry.  `key` stands for the entry object's identity: <<s, 0>> is the
\* entry AutoState s holds for obj, <<0, k>> the entry of explicit handle k.
NewEntry(key, obj, sphere, padding, dynamic) ==
  [key |-> key, obj |-> obj, c2 |-> sphere.c2, r2 |-> sphere.r2,
   padding |-> padding, dyn |-> dynamic]

\* A mutation: the entry is looked up by its object, not by its identity.
EntryIndex_byObject(ents, key, obj) ==
  IF \E i \in 1..Len(ents) : ents[i].obj = obj
  THEN CHOOSE i \in 1..Len(ents) :
         ents[i].obj = obj /\ \A j \in 1..(i - 1) : ents[j].obj # obj
  ELSE 0

\* entries.indexOf(entry): the position of the entry with this identity.
EntryIndex(ents, key, obj) ==
  IF \E i \in 1..Len(ents) : ents[i].key = key /\ ents[i].obj = obj
  THEN CHOOSE i \in 1..Len(ents) : ents[i].key = key /\ ents[i].obj = obj
  ELSE 0

\* A mutation: splice(indexOf(entry), 1) without the test i >= 0, which
\* removes the last entry when the entry is not found.
UnregisterEntry_noGuard(ents, key, obj) ==
  LET i == EntryIndex(ents, key, obj)
  IN  IF i > 0 THEN RemoveAt(ents, i)
      ELSE IF Len(ents) > 0 THEN RemoveAt(ents, Len(ents)) ELSE ents

\* A mutation: the test is i > 0, which never removes the first entry.
UnregisterEntry_skipFirst(ents, key, obj) ==
  LET i == EntryIndex(ents, key, obj)
  IN  IF i > 1 THEN RemoveAt(ents, i) ELSE ents

\* The unregister closure: const i = entries.indexOf(entry);
\* if (i >= 0) entries.splice(i, 1).
UnregisterEntry(ents, key, obj) ==
  LET i == EntryIndex(ents, key, obj)
  IN  IF i > 0 THEN RemoveAt(ents, i) ELSE ents

\* registerForCulling as called by autoRegisterNodeRecursive (sphere undefined).
RegisterEntry(ents, key, obj, padding, dynamic, par, ch, p) ==
  Append(ents, NewEntry(key, obj, ComputeBounds(obj, padding, par, ch, p),
                        padding, dynamic))

\* The sphere argument of registerForCulling when none is given.
NoSphere == [c2 |-> 0, r2 |-> -1]

\* registerForCulling(obj, opts): an explicit sphere is cloned into the entry,
\* otherwise computeBounds fills it; the entry is pushed.
RegisterForCulling(ents, key, obj, padding, dynamic, sphere, par, ch, p) ==
  IF sphere # NoSphere
  THEN Append(ents, NewEntry(key, obj, sphere, padding, dynamic))
  ELSE RegisterEntry(ents, key, obj, padding, dynamic, par, ch, p)

WithSphere(e, sphere) == [e EXCEPT !.c2 = sphere.c2, !.r2 = sphere.r2]

\* A mutation: the padding is added to the radius the entry already has.
RefreshEntry_accumulate(e, par, ch, p) ==
  IF e.dyn
  THEN [c2 |-> ComputeBounds(e.obj, e.padding, par, ch, p).c2,
        r2 |-> e.r2 + 2 * e.padding] @@ e
  ELSE e

\* A mutation: every entry is recomputed, dynamic or not.
RefreshEntry_always(e, par, ch, p) ==
  WithSphere(e, ComputeBounds(e.obj, e.padding, par, ch, p))

\* updateCulling, lines 279-292: a dynamic entry's sphere is recomputed in
\* place; a static entry is left alone.
RefreshEntry(e, par, ch, p) ==
  IF e.dyn THEN WithSphere(e, ComputeBounds(e.obj, e.padding, par, ch, p))
  ELSE e

\* A mutation: the sphere is tested before it is recomputed.
CullOne_testFirst(e, cz, par, ch, p) ==
  [entry |-> RefreshEntry(e, par, ch, p),
   result |-> FrustumIntersectsSphere(e.c2, e.r2, cz)]

\* One iteration of updateCulling's loop: refresh, then test.
CullOne(e, cz, par, ch, p) ==
  LET f == RefreshEntry(e, par, ch, p)
  IN  [entry |-> f, result |-> FrustumIntersectsSphere(f.c2, f.r2, cz)]

\* updateCulling's loop from entry i on: ents and vis are updated in place, log
\* records for each entry the sphere that was tested and the value written.
RECURSIVE CullPass(_, _, _, _, _, _, _, _)
CullPass(i, ents, vis, log, cz, par, ch, p) ==
  IF i > Len(ents) THEN [entries |-> ents, visible |-> vis, w |-> log]
  ELSE LET c == CullOne(ents[i], cz, par, ch, p)
       IN  CullPass(i + 1, [ents EXCEPT ![i] = c.entry],
                    [vis EXCEPT ![ents[i].obj] = c.result],
                    Append(log, [obj |-> ents[i].obj, c2 |-> c.entry.c2,
                                 r2 |-> c.entry.r2, val |-> c.result]),
                    cz, par, ch, p)

HasEntry(ents, n) == \E i \in 1..Len(ents) : ents[i].obj = n
AutoEntriesOf(ents, n) ==
  {i \in 1..Len(ents) : ents[i].obj = n /\ ents[i].key[1] > 0}
HasAutoEntry(ents, n) == AutoEntriesOf(ents, n) # {}

\* ----------------------------------------------------------- auto-culling
PredKinds == {"default", "throwsOnGroup", "all"}

\* What the caller's predicate does for a node: "throwsOnGroup" returns true
\* for a mesh and throws for anything else; "all" returns true.
Predicate(kind, n) ==
  CASE kind = "throwsOnGroup" -> IF IsMesh(n) THEN "true" ELSE "throw"
    [] kind = "all"           -> "true"
    [] OTHER                  -> "false"

\* A mutation: the predicate is called without the try/catch.
ShouldAutoRegister_noCatch(n, kind) ==
  IF kind = "default"
  THEN (IF IsMesh(n) THEN "true" ELSE "false")
  ELSE Predicate(kind, n)

\* shouldAutoRegister: no predicate -> isMesh || isInstancedMesh; otherwise the
\* predicate's result, and false when it throws.
ShouldAutoRegister(n, kind) ==
  IF kind = "default"
  THEN (IF IsMesh(n) THEN "true" ELSE "false")
  ELSE (IF Predicate(kind, n) = "throw" THEN "false" ELSE Predicate(kind, n))

\* A mutation: only the receiver itself is looked up, not its ancestors.
NearestWatched_receiverOnly(p, par, wr) ==
  IF p = NoNode THEN 0 ELSE wr[p]

\* The nearest watched root at or above p: the loop `while (p)` of the patched
\* add and remove.  0 when there is none.
RECURSIVE NearestWatched(_, _, _)
NearestWatched(p, par, wr) ==
  IF p = NoNode THEN 0
  ELSE IF wr[p] # 0 THEN wr[p]
  ELSE NearestWatched(par[p], par, wr)

\* autoRegisterNodeRecursive(root, state), as the loop over its stack.  The
\* result carries the registry, the state's unregisters map (the set of nodes
\* that have a handle in it) and whether an exception escaped.
RECURSIVE AutoRegisterWalk(_, _, _, _, _, _, _, _)
AutoRegisterWalk(stack, s, opt, ents, unreg, par, ch, p) ==
  IF stack = <<>> THEN [entries |-> ents, unregisters |-> unreg, raised |-> FALSE]
  ELSE
    LET node == stack[Len(stack)]
        rest == SubSeq(stack, 1, Len(stack) - 1)
        sh   == IF node \in unreg THEN "false"
                ELSE ShouldAutoRegister(node, opt.predicate)
        next == IF opt.recursive THEN rest \o ch[node] ELSE rest
    IN  IF sh = "throw"
        THEN [entries |-> ents, unregisters |-> unreg, raised |-> TRUE]
        ELSE IF sh = "true"
        THEN AutoRegisterWalk(next, s, opt,
               RegisterEntry(ents, <<s, 0>>, node, opt.padding, opt.dynamic,
                             par, ch, p),
               unreg \cup {node}, par, ch, p)
        ELSE AutoRegisterWalk(next, s, opt, ents, unreg, par, ch, p)

\* The unregister walks of autoUnregisterNodeRecursive, of the closure that
\* enableAutoCulling returns and of disableAutoCulling: pop a node, call its
\* handle if the map has one, delete it from the map if `forget`, push the
\* children if `recursive`.
RECURSIVE UnregisterWalk(_, _, _, _, _, _, _)
UnregisterWalk(stack, s, recursive, forget, ents, unreg, ch) ==
  IF stack = <<>> THEN [entries |-> ents, unregisters |-> unreg]
  ELSE
    LET node == stack[Len(stack)]
        rest == SubSeq(stack, 1, Len(stack) - 1)
        next == IF recursive THEN rest \o ch[node] ELSE rest
    IN  IF node \in unreg
        THEN UnregisterWalk(next, s, recursive, forget,
               UnregisterEntry(ents, <<s, 0>>, node),
               IF forget THEN unreg \ {node} ELSE unreg, ch)
        ELSE UnregisterWalk(next, s, recursive, forget, ents, unreg, ch)

AutoUnregisterNodeRecursive(root, s, st, ents, ch) ==
  UnregisterWalk(<<root>>, s, st.options.recursive, TRUE, ents,
                 st.unregisters, ch)

AutoRegisterNodeRecursive(root, s, st, ents, par, ch, p) ==
  AutoRegisterWalk(<<root>>, s, st.options, ents, st.unregisters, par, ch, p)

\* --------------------------------------------------- patched add / remove
SceneState(par, ch, ents, sts, raised) ==
  [parent |-> par, children |-> ch, entries |-> ents, autoStates |-> sts,
   raised |-> raised]

\* Object3D.prototype.remove as patched by ensurePatched: origRemove detaches
\* o when it is a child of q; then, whether or not it was one, the nearest
\* watched root at or above q unregisters o's subtree.
PatchedRemove(q, o, par, ch, ents, sts, wr, patched) ==
  LET i    == IndexOf(ch[q], o)
      par1 == IF i > 0 THEN [par EXCEPT ![o] = NoNode] ELSE par
      ch1  == IF i > 0 THEN [ch EXCEPT ![q] = RemoveAt(ch[q], i)] ELSE ch
      s    == IF patched THEN NearestWatched(q, par1, wr) ELSE 0
  IN  IF s = 0 THEN SceneState(par1, ch1, ents, sts, FALSE)
      ELSE LET w == AutoUnregisterNodeRecursive(o, s, sts[s], ents, ch1)
           IN  SceneState(par1, ch1, w.entries,
                          [sts EXCEPT ![s].unregisters = w.unregisters], FALSE)

\* Object3D.prototype.add as patched by ensurePatched: origAdd refuses o = p,
\* otherwise takes o from its current parent (through the patched remove) and
\* appends it to p's children; then the nearest watched root at or above p
\* registers o (and its subtree if recursive).
PatchedAdd(p, o, par, ch, ents, sts, wr, patched, ps) ==
  LET a  == IF o # p /\ par[o] # NoNode
            THEN PatchedRemove(par[o], o, par, ch, ents, sts, wr, patched)
            ELSE SceneState(par, ch, ents, sts, FALSE)
      par2 == IF o # p THEN [a.parent EXCEPT ![o] = p] ELSE a.parent
      ch2  == IF o # p THEN [a.children EXCEPT ![p] = Append(@, o)]
              ELSE a.children
      s    == IF patched THEN NearestWatched(p, par2, wr) ELSE 0
  IN  IF s = 0 THEN SceneState(par2, ch2, a.entries, a.autoStates, FALSE)
      ELSE LET w == AutoRegisterNodeRecursive(o, s, a.autoStates[s], a.entries,
                                              par2, ch2, ps)
           IN  SceneState(par2, ch2, w.entries,
                          [a.autoStates EXCEPT ![s].unregisters = w.unregisters],
                          w.raised)

\* --------------------------------------------------------------- history
\* op: the operation; a, b: its node arguments; s: the AutoState or handle
\* it used; found: whether remove found its child / the handle its entry;
\* raised: whether an exception escaped; w: what updateCulling tested and
\* wrote, entry by entry.
Op(op, a, b, s, found, raised, w) ==
  [op |-> op, a |-> a, b |-> b, s |-> s, found |-> found, raised |-> raised,
   w |-> w]

\* ------------------------------------------------------------ render loop
\* The per-frame callbacks that setup code registers with the update manager.
UpdateFns == {"fpsTick", "movement", "vrHands"}

\* The update manager as constructed, before the first frame.
FrameInit ==
  /\ updates = <<>>
  /\ frames = [n |-> 0, log |-> <<>>]

\* updateManager.register(fn): Set.add, which keeps the first insertion.
RegisterUpdate(fn) ==
  /\ updates' = IF IndexOf(updates, fn) > 0 THEN updates
                ELSE Append(updates, fn)
  /\ UNCHANGED <<frames, sceneVars, cullVars, last, groundVars,
               switchVars>>

\* updateManager.unregister(fn): Set.delete.
UnregisterUpdate(fn) ==
  /\ updates' = SelectSeq(updates, LAMBDA f : f # fn)
  /\ UNCHANGED <<frames, sceneVars, cullVars, last, groundVars,
               switchVars>>

\* updateManager.updateAll: every registered callback, in insertion order.
UpdateAll(fns) == [i \in 1..Len(fns) |-> <<"update", fns[i]>>]

\* One call of renderLoop: updateManager.updateAll({deltaTime}), then
\* renderer.render(scene, userCamera).  The log is the sequence of calls made.
RenderLoop ==
  /\ frames.n < MaxFrames
  /\ frames' = [n |-> frames.n + 1,
                log |-> UpdateAll(updates) \o <<(<<"render", "userCamera">>)>>]
  /\ UNCHANGED <<updates, sceneVars, cullVars, last, groundVars,
               switchVars>>

\* ----------------------------------------------------------- ground placer
\* Heights are rationals n / d with d > 0.  The terrains below have cell
\* counts and cell widths that are powers of two and the coordinates are
\* integers, so every quotient the code forms is a dyadic rational and its
\* double arithmetic is exact.
Rat(n, d) == [n |-> n, d |-> d]
RatAdd(a, b) == Rat(a.n * b.d + b.n * a.d, a.d * b.d)
RatEq(a, b) == a.n * b.d = b.n * a.d

\* An optional value: a property that is absent or undefined, or one that
\* holds v.
None == <<>>
Some(v) == <<v>>

\* The children a scene can have for detectGroundConfig: two displaced
\* horizontal planes (3 x 3 and 2 x 2 vertices, vertex heights in row-major
\* order as geometry.attributes.position.getZ returns them), a vertical plane
\* and a mesh that is no plane.  size is the world width and depth of the
\* plane, px, py, pz its position.
SceneChild(id) ==
  CASE id = "T1" -> [plane |-> TRUE, horizontal |-> TRUE, size |-> 8,
                     px |-> 0, py |-> 0, pz |-> 0,
                     h |-> <<0, 2, 1, 4, 6, 3, 2, 0, 5>>]
    [] id = "T2" -> [plane |-> TRUE, horizontal |-> TRUE, size |-> 4,
                     px |-> 2, py |-> 1, pz |-> 0,
                     h |-> <<1, 3, 5, 8>>]
    [] id = "ground" -> [plane |-> TRUE, horizontal |-> TRUE, size |-> 8,
                         px |-> 0, py |-> 0, pz |-> 0, h |-> <<0, 0, 0, 0>>]
    [] id = "wall" -> [plane |-> TRUE, horizontal |-> FALSE, size |-> 4,
                       px |-> 0, py |-> 0, pz |-> 0, h |-> <<0, 0, 0, 0>>]
    [] OTHER -> [plane |-> FALSE, horizontal |-> FALSE, size |-> 2,
                 px |-> 0, py |-> 0, pz |-> 0, h |-> <<>>]

\* geometry.attributes.position.count
VertexCount(id) == Len(SceneChild(id).h)

\* The fields of a GroundConfig (scene is never read).
ConfigFields == {"type", "terrainMesh", "raycastTargets", "defaultHeight"}
Config(type, terrainMesh, raycastTargets, defaultHeight) ==
  [type |-> type, terrainMesh |-> terrainMesh,
   raycastTargets |-> raycastTargets, defaultHeight |-> defaultHeight]

\* terrainMeshes.reduce(...): the first mesh with the largest vertex count.
RECURSIVE Largest(_, _)
Largest(ms, best) ==
  IF ms = <<>> THEN best
  ELSE Largest(Tail(ms),
               IF VertexCount(Head(ms)) > VertexCount(best) THEN Head(ms)
               ELSE best)

\* detectGroundConfig(scene): a terrain config on the largest horizontal
\* plane among the scene's children, else a flat config.
DetectGroundConfig(sceneChildren) ==
  LET terrainMeshes ==
        SelectSeq(sceneChildren,
                  LAMBDA c : SceneChild(c).plane /\ SceneChild(c).horizontal)
  IN  IF Len(terrainMeshes) > 0
      THEN Config(Some("terrain"),
                  Some(Largest(Tail(terrainMeshes), Head(terrainMeshes))),
                  None, Some(0))
      ELSE Config(Some("flat"), None, None, Some(0))

\* currentConfig.defaultHeight || 0
DefaultHeightOr0(cfg) ==
  IF cfg.defaultHeight = None THEN 0 ELSE cfg.defaultHeight[1]

\* Math.sqrt(verts.count) - 1 for a square grid.
Segments(id) == (CHOOSE k \in 0..VertexCount(id) : k * k = VertexCount(id)) - 1

\* new THREE.Box3().setFromObject(terrain), the x and z extent: the plane is
\* centred on the mesh's position.
TerrainBox(id) ==
  LET t == SceneChild(id)
  IN  [minx |-> t.px - t.size \div 2, maxx |-> t.px + t.size \div 2,
       minz |-> t.pz - t.size \div 2, maxz |-> t.pz + t.size \div 2]

\* A mutation: the two fractions are exchanged.
Bilinear_swapped(h00, h10, h01, h11, dxN, uD, dyN, vD) ==
  LET h0N == h00 * (vD - dyN) + h10 * dyN
      h1N == h01 * (vD - dyN) + h11 * dyN
  IN  h0N * (uD - dxN) + h1N * dxN

\* The bilinear interpolation of getTerrainHeight with dx = dxN / uD and
\* dy = dyN / vD; the result is the numerator over uD * vD.
Bilinear(h00, h10, h01, h11, dxN, uD, dyN, vD) ==
  LET h0N == h00 * (uD - dxN) + h10 * dxN
      h1N == h01 * (uD - dxN) + h11 * dxN
  IN  h0N * (vD - dyN) + h1N * dyN

\* getTerrainHeight(x, z).  u = uN / uD and v = vN / vD; fx = u * segments has
\* the integer part ix and the fraction dxN / uD, likewise fy; the heights are
\* carried over the denominator uD * vD.
GetTerrainHeight(cfg, x, z) ==
  IF cfg.terrainMesh = None THEN Rat(0, 1)
  ELSE
    LET id   == cfg.terrainMesh[1]
        bbox == TerrainBox(id)
        uN   == x - bbox.minx
        uD   == bbox.maxx - bbox.minx
        vN   == z - bbox.minz
        vD   == bbox.maxz - bbox.minz
    IN  IF uN < 0 \/ uN > uD \/ vN < 0 \/ vN > vD
        THEN Rat(DefaultHeightOr0(cfg), 1)
        ELSE
          LET segments == Segments(id)
              ix  == (uN * segments) \div uD
              iy  == (vN * segments) \div vD
              dxN == (uN * segments) % uD
              dyN == (vN * segments) % vD
          IN  IF ix >= 0 /\ ix < segments /\ iy >= 0 /\ iy < segments
              THEN
                LET verts == SceneChild(id).h
                    h00 == verts[iy * (segments + 1) + ix + 1]
                    h10 == verts[iy * (segments + 1) + (ix + 1) + 1]
                    h01 == verts[(iy + 1) * (segments + 1) + ix + 1]
                    h11 == verts[(iy + 1) * (segments + 1) + (ix + 1) + 1]
                    heightN == Bilinear(h00, h10, h01, h11, dxN, uD, dyN, vD)
                IN  Rat(heightN + SceneChild(id).py * uD * vD, uD * vD)
              ELSE Rat(DefaultHeightOr0(cfg), 1)

\* The meshes a raycast config can name: a floor and a platform above part
\* of it.  Each is hit from above on its top face, over the rectangle
\* x in lo2/2 .. hi2/2 (and the same in z); the rectangles end between integer
\* coordinates, so no query ray grazes an edge.
RayTarget(id) ==
  CASE id = "floor"    -> [lo2 |-> -7, hi2 |-> 7, top |-> 1]
    [] id = "platform" -> [lo2 |-> -1, hi2 |-> 5, top |-> 3]
    [] OTHER           -> [lo2 |-> 1, hi2 |-> -1, top |-> 0]

\* raycaster.intersectObjects(targets, true) for the ray from (x, 1000, z)
\* straight down: the y of every top face the ray passes through.
Intersects(targets, x, z) ==
  {RayTarget(targets[i]).top : i \in
     {j \in 1..Len(targets) :
        /\ RayTarget(targets[j]).lo2 <= 2 * x /\ 2 * x <= RayTarget(targets[j]).hi2
        /\ RayTarget(targets[j]).lo2 <= 2 * z /\ 2 * z <= RayTarget(targets[j]).hi2}}

\* getRaycastHeight(x, z): intersects[0] is the nearest hit, the highest one.
GetRaycastHeight(cfg, x, z) ==
  IF cfg.raycastTargets = None \/ Len(cfg.raycastTargets[1]) = 0
  THEN Rat(DefaultHeightOr0(cfg), 1)
  ELSE LET hits == Intersects(cfg.raycastTargets[1], x, z)
       IN  IF hits # {} THEN Rat(Max(hits), 1)
           ELSE Rat(DefaultHeightOr0(cfg), 1)

\* A mutation: the presence of a terrain mesh decides, not the type.
GetGroundHeight_byMesh(cfg, x, z) ==
  IF cfg.terrainMesh # None THEN GetTerrainHeight(cfg, x, z)
  ELSE IF cfg.type = Some("raycast") THEN GetRaycastHeight(cfg, x, z)
  ELSE Rat(DefaultHeightOr0(cfg), 1)

\* getGroundHeight(x, z): the switch on currentConfig.type.
GetGroundHeight(cfg, x, z) ==
  IF cfg.type = Some("terrain") THEN GetTerrainHeight(cfg, x, z)
  ELSE IF cfg.type = Some("raycast") THEN GetRaycastHeight(cfg, x, z)
  ELSE Rat(DefaultHeightOr0(cfg), 1)

\* A mutation: the new config replaces the old one.
MergeConfig_replace(cfg, newConfig) ==
  [f \in ConfigFields |->
     IF f \in DOMAIN newConfig THEN newConfig[f] ELSE None]

\* updateConfig(newConfig): { ...currentConfig, ...newConfig }.  A property
\* that newConfig has, even with the value undefined, replaces the old one.
MergeConfig(cfg, newConfig) ==
  [f \in ConfigFields |->
     IF f \in DOMAIN newConfig THEN newConfig[f] ELSE cfg[f]]

\* String.prototype.includes
Includes(str, sub) ==
  \E i \in 0..(Len(str) - Len(sub)) : SubSeq(str, i + 1, i + Len(sub)) = sub

\* The objects that content code places.  name is the Object3D's name, letter
\* by letter; meshes are the meshes of its subtree, each with its geometry
\* kind, the radius parameter of a sphere geometry, and the vertical extent
\* lo .. hi of its world box relative to the object's origin.
SphereMesh(r, at) ==
  [geo |-> "sphere", radius |-> r, lo |-> at - r, hi |-> at + r]
BoxMesh(lo, hi) == [geo |-> "box", radius |-> 0, lo |-> lo, hi |-> hi]
PlacedObject(id) ==
  CASE id = "ball"    -> [name |-> <<>>, meshes |-> <<SphereMesh(2, 0)>>]
    [] id = "crate"   -> [name |-> <<"c", "r", "a", "t", "e">>,
                          meshes |-> <<BoxMesh(-3, 3)>>]
    [] id = "snowman" -> [name |-> <<"t", "a", "n", "k", "s">>,
                          meshes |-> <<BoxMesh(0, 6), SphereMesh(1, 7)>>]
    [] id = "tree"    -> [name |-> <<"o", "a", "k", "_", "t", "r", "e", "e", "_",
                                     "1">>,
                          meshes |-> <<BoxMesh(0, 4), SphereMesh(2, 5),
                                       SphereMesh(1, 7)>>]
    [] id = "marble"  -> [name |-> <<"f", "l", "o", "w">>,
                          meshes |-> <<SphereMesh(1, 0)>>]
    [] id = "tank"    -> [name |-> <<"t", "a", "n", "k">>,
                          meshes |-> <<BoxMesh(0, 2), BoxMesh(2, 3)>>]
    [] OTHER          -> [name |-> <<"b", "a", "r">>,
                          meshes |-> <<SphereMesh(1, 0), SphereMesh(1, 4)>>]
Objects ==
  {"ball", "marble", "crate", "snowman", "tree", "tank", "dumbbell"}

\* The name test of getObjectBottomOffset: a non-empty name that includes
\* 'tree_' or is 'tank', 'grass' or 'flower'.
OriginAtBase(name) ==
  /\ name # <<>>
  /\ \/ Includes(name, <<"t", "r", "e", "e", "_">>)
     \/ name = <<"t", "a", "n", "k">>
     \/ name = <<"g", "r", "a", "s", "s">>
     \/ name = <<"f", "l", "o", "w", "e", "r">>

\* new THREE.Box3().setFromObject(object), vertical extent max.y - min.y.
BoxHeight(meshes) ==
  Max({meshes[i].hi : i \in 1..Len(meshes)})
    - Min({meshes[i].lo : i \in 1..Len(meshes)})

\* A mutation: the geometry's radius parameter is not read.
GetObjectBottomOffset_unitRadius(id) ==
  LET object == PlacedObject(id)
      meshes == SelectSeq(object.meshes, LAMBDA m : m.geo = "sphere")
  IN  IF OriginAtBase(object.name) THEN Rat(0, 1)
      ELSE IF Len(meshes) = 1 THEN Rat(1, 1)
      ELSE Rat(BoxHeight(object.meshes), 2)

\* getObjectBottomOffset(object)
GetObjectBottomOffset(id) ==
  LET object == PlacedObject(id)
      meshes == SelectSeq(object.meshes, LAMBDA m : m.geo = "sphere")
  IN  IF OriginAtBase(object.name) THEN Rat(0, 1)
      ELSE IF Len(meshes) = 1
      THEN Rat(IF meshes[1].radius = 0 THEN 1 ELSE meshes[1].radius, 1)
      ELSE Rat(BoxHeight(object.meshes), 2)

\* placeObject(object, x, z): the position it sets.
PlaceObjectPos(cfg, id, x, z) ==
  [x |-> x, y |-> RatAdd(GetGroundHeight(cfg, x, z), GetObjectBottomOffset(id)),
   z |-> z]

\* A mutation: the vector's y is kept as the ground height.
PlaceObjectAtPos_keepY(cfg, id, position) ==
  [x |-> position.x,
   y |-> RatAdd(Rat(position.y, 1), GetObjectBottomOffset(id)),
   z |-> position.z]

\* placeObjectAt(object, position): the position it sets.
PlaceObjectAtPos(cfg, id, position) ==
  [x |-> position.x,
   y |-> RatAdd(GetGroundHeight(cfg, position.x, position.z),
                GetObjectBottomOffset(id)),
   z |-> position.z]

\* Every object starts at the origin, where its constructor leaves it.
Origin == [x |-> 0, y |-> Rat(0, 1), z |-> 0]

\* createGroundPlacer(scene) for a scene with the given children.
CreateGroundPlacer(sceneChildren) ==
  /\ currentConfig = DetectGroundConfig(sceneChildren)
  /\ objPos = [o \in Objects |-> Origin]
  /\ glast = [op |-> "create", obj |-> NoNode, x |-> 0, z |-> 0, py |-> 0,
              h |-> Rat(0, 1), n |-> 0]

GroundInit == CreateGroundPlacer(<<>>)

\* placer.getGroundHeight(x, z)
GroundHeight(x, z) ==
  /\ glast' = [op |-> "getGroundHeight", obj |-> NoNode, x |-> x, z |-> z,
               py |-> 0, h |-> GetGroundHeight(currentConfig, x, z), n |-> glast.n]
  /\ UNCHANGED <<currentConfig, objPos, sceneVars, cullVars, last, frameVars,
               switchVars>>

\* placer.updateConfig(newConfig)
UpdateConfig(newConfig) ==
  /\ currentConfig' = MergeConfig(currentConfig, newConfig)
  /\ glast' = [op |-> "updateConfig", obj |-> NoNode, x |-> 0, z |-> 0,
               py |-> 0, h |-> Rat(0, 1), n |-> glast.n, nc |-> newConfig]
  /\ UNCHANGED <<objPos, sceneVars, cullVars, last, frameVars,
               switchVars>>

\* placer.placeObject(object, x, z)
PlaceObject(id, x, z) ==
  /\ glast.n < MaxPlacements
  /\ objPos' = [objPos EXCEPT ![id] = PlaceObjectPos(currentConfig, id, x, z)]
  /\ glast' = [op |-> "placeObject", obj |-> id, x |-> x, z |-> z, py |-> 0,
               h |-> GetGroundHeight(currentConfig, x, z), n |-> glast.n + 1]
  /\ UNCHANGED <<currentConfig, sceneVars, cullVars, last, frameVars,
               switchVars>>

\* placer.placeObjectAt(object, position)
PlaceObjectAt(id, position) ==
  /\ glast.n < MaxPlacements
  /\ objPos' = [objPos EXCEPT
                  ![id] = PlaceObjectAtPos(currentConfig, id, position)]
  /\ glast' = [op |-> "placeObjectAt", obj |-> id, x |-> position.x,
               z |-> position.z, py |-> position.y,
               h |-> GetGroundHeight(currentConfig, position.x, position.z),
               n |-> glast.n + 1]
  /\ UNCHANGED <<currentConfig, sceneVars, cullVars, last, frameVars,
               switchVars>>

\* ---------------------------------------------------------------- actions
\* ------------------------------------------------------------ scene switcher
\* The scenes main.ts registers, in order; scenes[idx] is 0-based.
Scenes3 == <<"Basic World", "Tank Demo", "Varied Landscape">>
NoScene == -1

\* scenes[idx]: undefined (None) for an index with no registered scene.
SceneEntry(idx) ==
  IF idx \in 0..(Len(Scenes3) - 1) THEN Some(Scenes3[idx + 1]) ELSE None

\* The ground plane a scene's setup adds before it asks for the placer: a
\* flat floor in Basic World and Tank Demo, a displaced terrain in Varied
\* Landscape.
SceneGround(name) ==
  IF name = "Varied Landscape" THEN <<"T1">> ELSE <<"ground">>

\* if (this.currentCleanup) this.currentCleanup(): one more call of the
\* dispose function of setup run cur.  A mutation leaves the call out.
RunCleanup_skipped(sts, cur) == sts

RunCleanup(sts, cur) ==
  IF cur # 0 THEN [sts EXCEPT ![cur].disposed = @ + 1] ELSE sts

\* new SceneSwitcher(scene) and the three registerScene calls; no placer yet.
SwitchInit ==
  /\ currentSceneIdx = NoScene
  /\ currentCleanup = 0
  /\ currentGetSpawn = 0
  /\ setups = <<>>
  /\ placers = <<>>
  /\ globalGroundPlacer = 0
  /\ store = [currentSceneIdx |-> 0]
  /\ slast = [op |-> "init", idx |-> NoScene, ran |-> FALSE]

\* switchTo(idx).  A setup adds its objects and calls
\* getGlobalGroundPlacer(scene), which stores a fresh placer in
\* globalGroundPlacer; dispose removes the objects and touches nothing else.
SwitchTo(idx) ==
  /\ slast' = [op |-> "switchTo", idx |-> idx,
               ran |-> idx # currentSceneIdx /\ SceneEntry(idx) # None]
  /\ IF idx = currentSceneIdx
     THEN UNCHANGED <<currentSceneIdx, currentCleanup, currentGetSpawn, setups,
                      placers, globalGroundPlacer, store>>
     ELSE LET cleaned == RunCleanup(setups, currentCleanup)
              entry == SceneEntry(idx)
              k == Len(setups) + 1
          IN  IF entry = None
              THEN /\ setups' = cleaned
                   /\ currentCleanup' = 0
                   /\ currentGetSpawn' = 0
                   /\ UNCHANGED <<currentSceneIdx, placers,
                                  globalGroundPlacer, store>>
              ELSE /\ Len(setups) < MaxSetups
                   /\ setups' = Append(cleaned,
                                       [idx |-> idx, disposed |-> 0])
                   /\ placers' =
                        Append(placers,
                               [setup |-> k,
                                config |-> DetectGroundConfig(
                                             SceneGround(entry[1])),
                                updated |-> <<>>])
                   /\ globalGroundPlacer' = Len(placers) + 1
                   /\ currentCleanup' = k
                   /\ currentGetSpawn' = k
                   /\ currentSceneIdx' = idx
                   /\ store' = [currentSceneIdx |-> idx]
  /\ UNCHANGED <<sceneVars, cullVars, last, frameVars, groundVars>>

\* getCurrentGlobalGroundPlacer()?.updateConfig(newConfig)
UpdateGlobalConfig(newConfig) ==
  /\ globalGroundPlacer # 0
  /\ Len(placers[globalGroundPlacer].updated) < MaxConfigUpdates
  /\ placers' = [placers EXCEPT ![globalGroundPlacer] =
                   [@ EXCEPT !.config = MergeConfig(@, newConfig),
                             !.updated = Append(@, newConfig)]]
  /\ slast' = [op |-> "updateConfig", idx |-> NoScene, ran |-> FALSE]
  /\ UNCHANGED <<currentSceneIdx, currentCleanup, currentGetSpawn, setups,
                 globalGroundPlacer, store>>
  /\ UNCHANGED <<sceneVars, cullVars, last, frameVars, groundVars>>

Init ==
  /\ parent = [n \in Nodes |-> NoNode]
  /\ children = [n \in Nodes |-> <<>>]
  /\ pos = [n \in Nodes |-> 0]
  /\ visible = [n \in Nodes |-> TRUE]
  /\ camZ = 0
  /\ entries = <<>>
  /\ handles = <<>>
  /\ watchedRoots = [n \in Nodes |-> 0]
  /\ autoStates = <<>>
  /\ patchedAddRemove = FALSE
  /\ last = Op("init", NoNode, NoNode, 0, FALSE, FALSE, <<>>)
  /\ FrameInit
  /\ GroundInit
  /\ SwitchInit

\* p.add(o).  Adding an ancestor of p below p makes a cycle, on which the
\* patched add's walk to the root does not terminate; such calls are left out.
Add(p, o) ==
  /\ UNCHANGED <<frameVars, groundVars, switchVars>>
  /\ o \notin (AncestorsOrSelf(p, parent) \ {p})
  /\ LET r == PatchedAdd(p, o, parent, children, entries, autoStates,
                         watchedRoots, patchedAddRemove, pos)
     IN  /\ parent' = r.parent
         /\ children' = r.children
         /\ entries' = r.entries
         /\ autoStates' = r.autoStates
         /\ last' = Op("add", p, o,
                      NearestWatched(p, r.parent, watchedRoots), FALSE,
                      r.raised, <<>>)
  /\ UNCHANGED <<pos, visible, camZ, handles, watchedRoots, patchedAddRemove>>

\* q.remove(o), for any o (a child of q or not).
Remove(q, o) ==
  /\ UNCHANGED <<frameVars, groundVars, switchVars>>
  /\ LET r == PatchedRemove(q, o, parent, children, entries, autoStates,
                            watchedRoots, patchedAddRemove)
     IN  /\ parent' = r.parent
         /\ children' = r.children
         /\ entries' = r.entries
         /\ autoStates' = r.autoStates
         /\ last' = Op("remove", q, o,
                      NearestWatched(q, r.parent, watchedRoots),
                      IndexOf(children[q], o) > 0, FALSE, <<>>)
  /\ UNCHANGED <<pos, visible, camZ, handles, watchedRoots, patchedAddRemove>>

\* enableAutoCulling(root, opts): ensurePatched, a fresh AutoState replaces
\* whatever watchedRoots held for root, then the initial traversal.
EnableAutoCulling(root, opt) ==
  /\ UNCHANGED <<frameVars, groundVars, switchVars>>
  /\ Len(autoStates) < MaxEnables
  /\ LET s  == Len(autoStates) + 1
         st == [root |-> root, options |-> opt, unregisters |-> {}]
         w  == AutoRegisterNodeRecursive(root, s, st, entries, parent,
                                         children, pos)
     IN  /\ patchedAddRemove' = TRUE
         /\ watchedRoots' = [watchedRoots EXCEPT ![root] = s]
         /\ entries' = w.entries
         /\ autoStates' =
              Append(autoStates, [st EXCEPT !.unregisters = w.unregisters])
         /\ last' = Op("enable", root, NoNode, s, FALSE, w.raised, <<>>)
  /\ UNCHANGED <<sceneVars, handles>>

\* The closure returned by the s-th enableAutoCulling call: it walks from its
\* root with its own state, calls the handles it finds (leaving them in the
\* map) and deletes root from watchedRoots.
DisableFn(s) ==
  /\ UNCHANGED <<frameVars, groundVars, switchVars>>
  /\ s \in 1..Len(autoStates)
  /\ LET st == autoStates[s]
         w  == UnregisterWalk(<<st.root>>, s, st.options.recursive, FALSE,
                              entries, st.unregisters, children)
     IN  /\ entries' = w.entries
         /\ watchedRoots' = [watchedRoots EXCEPT ![st.root] = 0]
         /\ last' = Op("disableFn", st.root, NoNode, s, FALSE, FALSE, <<>>)
  /\ UNCHANGED <<sceneVars, handles, autoStates, patchedAddRemove>>

\* disableAutoCulling(root): nothing when root is not watched; otherwise the
\* walk with the state watchedRoots holds, deleting each handle it calls.
DisableAutoCulling(root) ==
  /\ UNCHANGED <<frameVars, groundVars, switchVars>>
  /\ LET s == watchedRoots[root]
     IN  IF s = 0
         THEN /\ UNCHANGED <<entries, watchedRoots, autoStates>>
              /\ last' = Op("disableAutoCulling", root, NoNode, 0, FALSE, FALSE,
                           <<>>)
         ELSE LET st == autoStates[s]
                  w  == UnregisterWalk(<<root>>, s, st.options.recursive, TRUE,
                                       entries, st.unregisters, children)
              IN  /\ entries' = w.entries
                  /\ autoStates' =
                       [autoStates EXCEPT ![s].unregisters = w.unregisters]
                  /\ watchedRoots' = [watchedRoots EXCEPT ![root] = 0]
                  /\ last' = Op("disableAutoCulling", root, NoNode, s, TRUE,
                               FALSE, <<>>)
  /\ UNCHANGED <<sceneVars, handles, patchedAddRemove>>

\* registerForCulling(obj, {dynamic, padding, sphere}) called by content code;
\* the returned closure is kept as handle k.
Register(obj, dynamic, padding, sphere) ==
  /\ UNCHANGED <<frameVars, groundVars, switchVars>>
  /\ Len(handles) < MaxHandles
  /\ LET k == Len(handles) + 1
     IN  /\ entries' = RegisterForCulling(entries, <<0, k>>, obj, padding,
                                          dynamic, sphere, parent, children, pos)
         /\ handles' = Append(handles, [obj |-> obj, padding |-> padding,
                                        sphere |-> sphere, called |-> FALSE])
         /\ last' = Op("register", obj, NoNode, k, FALSE, FALSE, <<>>)
  /\ UNCHANGED <<sceneVars, watchedRoots, autoStates, patchedAddRemove>>

\* A mutation: the closure shows the object again when it removes the entry.
Unregister_restoreVisible(k) ==
  /\ UNCHANGED <<frameVars, groundVars, switchVars>>
  /\ k \in 1..Len(handles)
  /\ entries' = UnregisterEntry(entries, <<0, k>>, handles[k].obj)
  /\ handles' = [handles EXCEPT ![k].called = TRUE]
  /\ visible' = [visible EXCEPT ![handles[k].obj] = TRUE]
  /\ last' = Op("unregister", handles[k].obj,
                IF handles[k].called THEN "again" ELSE NoNode, k,
                EntryIndex(entries, <<0, k>>, handles[k].obj) > 0, FALSE, <<>>)
  /\ UNCHANGED <<parent, children, pos, camZ, watchedRoots, autoStates,
                 patchedAddRemove>>

\* Handle k is invoked (for the first time or again).
Unregister(k) ==
  /\ UNCHANGED <<frameVars, groundVars, switchVars>>
  /\ k \in 1..Len(handles)
  /\ entries' = UnregisterEntry(entries, <<0, k>>, handles[k].obj)
  /\ handles' = [handles EXCEPT ![k].called = TRUE]
  /\ last' = Op("unregister", handles[k].obj,
                IF handles[k].called THEN "again" ELSE NoNode, k,
                EntryIndex(entries, <<0, k>>, handles[k].obj) > 0, FALSE, <<>>)
  /\ UNCHANGED <<sceneVars, watchedRoots, autoStates, patchedAddRemove>>

\* handle.updateBounds(): computeBounds writes the sphere object the entry
\* holds, whether or not the entry is still in the registry.
UpdateBounds(k) ==
  /\ UNCHANGED <<frameVars, groundVars, switchVars>>
  /\ k \in 1..Len(handles)
  /\ LET i == EntryIndex(entries, <<0, k>>, handles[k].obj)
     IN  /\ entries' =
              IF i = 0 THEN entries
              ELSE [entries EXCEPT ![i] =
                      WithSphere(@, ComputeBounds(handles[k].obj,
                                   handles[k].padding, parent, children, pos))]
         /\ last' = Op("updateBounds", handles[k].obj, NoNode, k, i > 0, FALSE,
                       <<>>)
  /\ UNCHANGED <<sceneVars, handles, watchedRoots, autoStates, patchedAddRemove>>

\* updateBoundsFor(obj): the first entry of obj is recomputed.
UpdateBoundsFor(obj) ==
  /\ UNCHANGED <<frameVars, groundVars, switchVars>>
  /\ LET i == IF HasEntry(entries, obj)
              THEN Min({j \in 1..Len(entries) : entries[j].obj = obj})
              ELSE 0
     IN  /\ entries' =
              IF i = 0 THEN entries
              ELSE [entries EXCEPT ![i] =
                      WithSphere(@, ComputeBounds(obj, entries[i].padding,
                                                  parent, children, pos))]
         /\ last' = Op("updateBoundsFor", obj, NoNode, 0, i > 0, FALSE, <<>>)
  /\ UNCHANGED <<sceneVars, handles, watchedRoots, autoStates, patchedAddRemove>>

\* Content code moves an object: position.z = z.
Move(n, z) ==
  /\ UNCHANGED <<frameVars, groundVars, switchVars>>
  /\ pos[n] # z
  /\ pos' = [pos EXCEPT ![n] = z]
  /\ last' = Op("move", n, NoNode, 0, FALSE, FALSE, <<>>)
  /\ UNCHANGED <<parent, children, visible, camZ, cullVars>>

\* updateCulling(camera) with the camera at world z = cz.
UpdateCulling(cz) ==
  /\ UNCHANGED <<frameVars, groundVars, switchVars>>
  /\ camZ' = cz
  /\ IF Len(entries) = 0
     THEN /\ UNCHANGED <<entries, visible>>
          /\ last' = Op("updateCulling", NoNode, NoNode, 0, FALSE, FALSE, <<>>)
     ELSE LET r == CullPass(1, entries, visible, <<>>, cz, parent, children,
                            pos)
          IN  /\ entries' = r.entries
              /\ visible' = r.visible
              /\ last' = Op("updateCulling", NoNode, NoNode, 0, TRUE, FALSE,
                            r.w)
  /\ UNCHANGED <<parent, children, pos, handles, watchedRoots, autoStates,
                 patchedAddRemove>>

\* ---------------------------------------------------------- specifications
\* Options of the enableAutoCulling calls: recursive and predicate vary,
\* dynamic and padding keep their defaults.
AutoOption(recursive, predicate) ==
  [recursive |-> recursive, dynamic |-> FALSE, padding |-> 0,
   predicate |-> predicate]
AutoOptions ==
  {AutoOption(TRUE, "default"), AutoOption(FALSE, "default"),
   AutoOption(TRUE, "throwsOnGroup")}

\* The add calls of a run: the scene takes the first group or the mesh, the
\* first group takes the second group or the mesh, the second group takes the
\* mesh.  remove is called on the same pairs, whether or not the second node
\* is a child of the first at the time.
AddCalls ==
  {<<"scene", "grp">>, <<"scene", "mesh">>, <<"grp", "sub">>,
   <<"grp", "mesh">>, <<"sub", "mesh">>}

\* Auto-culling is enabled on the scene and on the first group (a watched
\* root nested in a watched root).
AutoRoots == {"scene", "grp"}

NextAuto ==
  \/ \E c \in AddCalls : Add(c[1], c[2])
  \/ \E c \in AddCalls : Remove(c[1], c[2])
  \/ \E r \in AutoRoots, opt \in AutoOptions : EnableAutoCulling(r, opt)
  \/ \E s \in 1..MaxEnables : DisableFn(s)
  \/ \E r \in AutoRoots : DisableAutoCulling(r)

SpecAuto == Init /\ [][NextAuto]_vars

\* The culling runs start from a scene already set up by content code:
\* scene > grp > mesh, with the second group not yet in the scene.
SceneBuilt ==
  /\ parent = [n \in Nodes |->
                 CASE n = "grp" -> "scene" [] n = "mesh" -> "grp"
                   [] OTHER -> NoNode]
  /\ children = [n \in Nodes |->
                   CASE n = "scene" -> <<"grp">> [] n = "grp" -> <<"mesh">>
                     [] OTHER -> <<>>]
  /\ pos = [n \in Nodes |-> 0]
  /\ visible = [n \in Nodes |-> TRUE]
  /\ camZ = 0
  /\ entries = <<>>
  /\ handles = <<>>
  /\ watchedRoots = [n \in Nodes |-> 0]
  /\ autoStates = <<>>
  /\ patchedAddRemove = FALSE
  /\ last = Op("init", NoNode, NoNode, 0, FALSE, FALSE, <<>>)

InitCull == SceneBuilt /\ FrameInit /\ GroundInit /\ SwitchInit

Coords == (0 - MaxCoord)..MaxCoord
CullObjects == {"grp", "mesh"}

NextCull ==
  \/ \E o \in CullObjects, d \in BOOLEAN : Register(o, d, 0, NoSphere)
  \/ \E k \in 1..MaxHandles : Unregister(k)
  \/ \E k \in 1..MaxHandles : UpdateBounds(k)
  \/ \E o \in CullObjects : UpdateBoundsFor(o)
  \/ \E o \in CullObjects, z \in Coords : Move(o, z)
  \/ \E cz \in 0..MaxCoord : UpdateCulling(cz)

SpecCull == InitCull /\ [][NextCull]_vars

\* Runs in which content code registers the mesh with an explicit world-space
\* sphere (centre on the camera axis, stored doubled) or without one, with and
\* without padding, static or dynamic, and moves it between frames.
ExplicitSpheres == {[c2 |-> 0, r2 |-> 2], [c2 |-> -4, r2 |-> 4]}
Paddings == {0, 1}

NextSphere ==
  \/ \E d \in BOOLEAN, pad \in Paddings, sp \in ExplicitSpheres \cup {NoSphere} :
       Register("mesh", d, pad, sp)
  \/ \E k \in 1..MaxHandles : Unregister(k)
  \/ \E z \in Coords : Move("mesh", z)
  \/ \E cz \in 0..MaxCoord : UpdateCulling(cz)

SpecSphere == InitCull /\ [][NextSphere]_vars

\* The host's frames: setup code registers and unregisters per-frame
\* callbacks, and the renderer calls renderLoop once per frame.
NextFrame ==
  \/ \E fn \in UpdateFns : RegisterUpdate(fn)
  \/ \E fn \in UpdateFns : UnregisterUpdate(fn)
  \/ RenderLoop

SpecFrame == InitCull /\ [][NextFrame]_vars

\* The ground placer is created for a scene without a horizontal plane, with
\* one, with two (the larger one second), or with a vertical plane first.
Scenes == {<<>>, <<"T1">>, <<"T2", "T1">>, <<"wall", "T2">>}

InitGround ==
  /\ SceneBuilt /\ FrameInit /\ SwitchInit
  /\ \E sc \in Scenes : CreateGroundPlacer(sc)

\* The partial configs that scene code passes to updateConfig.
NewConfigs ==
  {[type |-> Some("flat")], [type |-> Some("terrain")],
   [type |-> Some("raycast")],
   [terrainMesh |-> Some("T2")], [terrainMesh |-> None],
   [raycastTargets |-> Some(<<"floor", "platform">>)],
   [raycastTargets |-> Some(<<"platform">>)],
   [raycastTargets |-> Some(<<>>)],
   [defaultHeight |-> Some(5)], [defaultHeight |-> Some(-3)],
   [defaultHeight |-> None],
   [type |-> Some("terrain"), terrainMesh |-> Some("T1"),
    defaultHeight |-> Some(0)]}

QueryCoords == (0 - MaxQuery)..MaxQuery

\* Height queries under every config that updateConfig can build.
NextGround ==
  \/ \E x \in QueryCoords, z \in QueryCoords : GroundHeight(x, z)
  \/ \E nc \in NewConfigs : UpdateConfig(nc)

SpecGround == InitGround /\ [][NextGround]_vars

\* Placements: at a terrain vertex and inside a terrain cell, off the raycast
\* targets and on the platform, with position vectors of two heights.
PlaceCoords == {-4, 1}
PlaceConfigs ==
  {[type |-> Some("raycast"),
    raycastTargets |-> Some(<<"floor", "platform">>)],
   [type |-> Some("flat"), defaultHeight |-> Some(5)]}

NextPlace ==
  \/ \E o \in Objects, x \in PlaceCoords, z \in PlaceCoords : PlaceObject(o, x, z)
  \/ \E o \in Objects, x \in PlaceCoords, z \in PlaceCoords, y \in {0, 9} :
       PlaceObjectAt(o, [x |-> x, y |-> y, z |-> z])
  \/ \E nc \in PlaceConfigs : UpdateConfig(nc)

SpecPlace == InitGround /\ [][NextPlace]_vars

\* ------------------------------------------------------------------ claims
\* The watched roots at or above p, and the deepest of them (the one whose
\* state the patched add and remove are meant to use).
WatchedAbove(p) == {x \in AncestorsOrSelf(p, parent) : watchedRoots[x] # 0}
GoverningRoot(p) ==
  IF WatchedAbove(p) = {} THEN NoNode
  ELSE CHOOSE x \in WatchedAbove(p) :
         \A y \in WatchedAbove(p) : y \in AncestorsOrSelf(x, parent)
OptionsOf(r) == autoStates[watchedRoots[r]].options
HasEntryOf(s, n) ==
  \E i \in 1..Len(entries) : entries[i].obj = n /\ entries[i].key = <<s, 0>>
MeshesOf(o) == {m \in Subtree(o, children) : IsMesh(m)}
\* n satisfies the predicate of an enableAutoCulling call (the default one
\* asks for a mesh).
Satisfies(n, kind) ==
  IF kind = "default" THEN IsMesh(n) ELSE Predicate(kind, n) = "true"

\* C1, as stated: once root is watched with recursive: true and the default
\* predicate, every add that puts a mesh below root (directly or inside the
\* added subtree) leaves that mesh with an entry in the registry.
C1_AddUnderAnyRecursiveRoot ==
  last.op = "add" =>
    \A r \in AncestorsOrSelf(last.a, parent) :
      (watchedRoots[r] # 0 /\ OptionsOf(r).recursive
         /\ OptionsOf(r).predicate = "default")
      => \A m \in MeshesOf(last.b) : HasEntry(entries, m)

\* C1, amended: the same, for adds whose receiver has root as its nearest
\* watched root (at or above it); the entry is the one root's state holds.
C1_AddUnderNearestRecursiveRoot ==
  last.op = "add" =>
    LET r == GoverningRoot(last.a)
    IN  (r # NoNode /\ OptionsOf(r).recursive
           /\ OptionsOf(r).predicate = "default")
        => \A m \in MeshesOf(last.b) : HasEntryOf(watchedRoots[r], m)

\* C1 witness: the second group, holding the mesh, has just been added to the
\* first group, two levels below the watched scene; the mesh got its entry.
C1_Witness ==
  /\ last.op = "add" /\ last.a = "grp" /\ last.b = "sub"
  /\ parent["mesh"] = "sub" /\ parent["grp"] = "scene"
  /\ GoverningRoot("grp") = "scene"
  /\ OptionsOf("scene").recursive /\ OptionsOf("scene").predicate = "default"
  /\ HasEntryOf(watchedRoots["scene"], "mesh")

\* C2, as stated: once root is watched with recursive: true, a remove that
\* detaches a node from under root leaves no entry for any node of the
\* detached subtree.
C2_RemoveLeavesNoEntry ==
  (last.op = "remove" /\ last.found) =>
    \A r \in AncestorsOrSelf(last.a, parent) :
      (watchedRoots[r] # 0 /\ OptionsOf(r).recursive)
      => \A n \in Subtree(last.b, children) : ~HasEntry(entries, n)

\* C3, as stated (first half): after the disable function of an
\* enableAutoCulling call has run, the registry holds no entry which that
\* call's state created.
C3_DisableLeavesNoEntry ==
  last.op = "disableFn" => \A n \in Nodes : ~HasEntryOf(last.s, n)

\* C4, as stated: when enableAutoCulling returns, every node below root that
\* satisfies the predicate has an entry created by the call.
C4_EnableRegistersExisting ==
  last.op = "enable" =>
    \A n \in Subtree(last.a, children) \ {last.a} :
      Satisfies(n, autoStates[last.s].options.predicate)
      => HasEntryOf(last.s, n)

\* C9: when the predicate throws for a node, the add (or the initial
\* traversal) does not raise, the added node is a child of the receiver, the
\* throwing node gets no entry and every other node of the walk for which the
\* predicate returns true has its entry.
C9_ThrowingPredicateSkipsNode ==
  (last.op \in {"add", "enable"}) =>
    LET r     == IF last.op = "add" THEN GoverningRoot(last.a) ELSE last.a
        start == IF last.op = "add" THEN last.b ELSE last.a
    IN  /\ ~last.raised
        /\ last.op = "add" =>
             /\ parent[last.b] = last.a
             /\ \E i \in 1..Len(children[last.a]) : children[last.a][i] = last.b
        /\ (r # NoNode /\ watchedRoots[r] # 0
              /\ OptionsOf(r).predicate = "throwsOnGroup")
           => \A n \in (IF OptionsOf(r).recursive
                        THEN Subtree(start, children) ELSE {start}) :
                /\ ~IsMesh(n) => ~HasEntryOf(watchedRoots[r], n)
                /\ IsMesh(n) => HasEntryOf(watchedRoots[r], n)

\* C9 witness: the second group (for which the predicate throws) was added
\* with the mesh inside it, and the mesh was still registered.
C9_Witness ==
  /\ last.op = "add" /\ last.b = "sub" /\ parent["mesh"] = "sub"
  /\ GoverningRoot(last.a) # NoNode
  /\ OptionsOf(GoverningRoot(last.a)).predicate = "throwsOnGroup"
  /\ HasEntryOf(watchedRoots[GoverningRoot(last.a)], "mesh")
  /\ ~HasEntry(entries, "sub")

\* The objects updateCulling wrote to, the explicit handles of an object, and
\* the objects all of whose registrations have been undone by their handles.
WrittenObjects(op) == {op.w[j].obj : j \in 1..Len(op.w)}
HandlesOf(o) == {k \in 1..Len(handles) : handles[k].obj = o}
RoundTripped(o) ==
  /\ HandlesOf(o) # {}
  /\ \A k \in HandlesOf(o) : handles[k].called
  /\ ~HasAutoEntry(entries, o)
IsLastEntryOf(i) ==
  \A j \in (i + 1)..Len(entries) : entries[j].obj # entries[i].obj

\* The sphere meets the frustum: some depth of the sphere's extent along the
\* camera axis lies between the near and the far plane.
SphereMeetsFrustum(c2, r2) ==
  \E x \in (2 * camZ - c2 - r2)..(2 * camZ - c2 + r2) :
    x \in Camera.near2..Camera.far2

\* The world position of a node, summed over its chain of ancestors, and the
\* sphere of an object's subtree: the mesh's box (radius 1) when the subtree
\* holds the mesh, else the fallback sphere of radius 3 at the object.
RECURSIVE SumPos(_)
SumPos(S) ==
  IF S = {} THEN 0
  ELSE LET x == CHOOSE y \in S : TRUE IN pos[x] + SumPos(S \ {x})
CurrentSphere(o, padding) ==
  IF "mesh" \in Subtree(o, children)
  THEN [c2 |-> 2 * SumPos(AncestorsOrSelf("mesh", parent)),
        r2 |-> 2 + 2 * padding]
  ELSE [c2 |-> 2 * SumPos(AncestorsOrSelf(o, parent)), r2 |-> 6 + 2 * padding]
SphereOf(e) == [c2 |-> e.c2, r2 |-> e.r2]

\* C5: an object whose every registration has been undone by its handle is
\* never written by updateCulling: the call leaves its visible flag as it was
\* and does not assign it, whatever else is registered.
C5_UnregisteredNeverWritten ==
  [][last'.op = "updateCulling" =>
       \A o \in Nodes :
         RoundTripped(o) =>
           /\ visible'[o] = visible[o]
           /\ o \notin WrittenObjects(last')]_vars

\* C5 witness: updateCulling has just written some object while the mesh,
\* registered and unregistered before, was left out.
C5_Witness ==
  /\ last.op = "updateCulling" /\ WrittenObjects(last) # {}
  /\ RoundTripped("mesh") /\ "mesh" \notin WrittenObjects(last)

\* C6, as stated: after updateCulling on a non-empty registry, for every entry
\* the object's visible flag is the result of testing that entry's sphere.
C6_VisibleMatchesEveryEntry ==
  (last.op = "updateCulling" /\ Len(entries) > 0) =>
    \A i \in 1..Len(entries) :
      visible[entries[i].obj] = SphereMeetsFrustum(entries[i].c2, entries[i].r2)

\* C6, amended: for every registered object the flag is the result of testing
\* the sphere of the object's last entry in the registry (its only entry when
\* it is registered once).
C6_VisibleMatchesLastEntry ==
  (last.op = "updateCulling" /\ Len(entries) > 0) =>
    \A i \in 1..Len(entries) :
      IsLastEntryOf(i) =>
        visible[entries[i].obj]
          = SphereMeetsFrustum(entries[i].c2, entries[i].r2)

\* C6 witness: after updateCulling one registered object is visible and
\* another is not.
C6_Witness ==
  /\ last.op = "updateCulling"
  /\ \E i, j \in 1..Len(entries) :
       /\ IsLastEntryOf(i) /\ IsLastEntryOf(j)
       /\ visible[entries[i].obj] /\ ~visible[entries[j].obj]
       /\ SphereMeetsFrustum(entries[i].c2, entries[i].r2)
       /\ ~SphereMeetsFrustum(entries[j].c2, entries[j].r2)

\* C7: a static entry's sphere is changed by nothing but updateBounds and
\* updateBoundsFor; updateCulling keeps it and tests it as it is.
C7_StaticSphereKept ==
  [][\A i \in 1..Len(entries) :
       ~entries[i].dyn =>
         /\ last'.op \notin {"updateBounds", "updateBoundsFor"} =>
              \A j \in 1..Len(entries') :
                (entries'[j].key = entries[i].key
                   /\ entries'[j].obj = entries[i].obj)
                => entries'[j] = entries[i]
         /\ last'.op = "updateCulling" =>
              /\ Len(last'.w) = Len(entries)
              /\ last'.w[i].c2 = entries[i].c2
              /\ last'.w[i].r2 = entries[i].r2]_vars

\* C7 witness: updateCulling has just run with a static entry whose object
\* has moved since the sphere was computed.
C7_Witness ==
  /\ last.op = "updateCulling"
  /\ \E i \in 1..Len(entries) :
       /\ ~entries[i].dyn
       /\ SphereOf(entries[i]) # CurrentSphere(entries[i].obj, entries[i].padding)

\* C8: after updateCulling every dynamic entry holds the sphere of the
\* object's current world position, and that sphere is the one that was
\* tested and whose result was written.
C8_DynamicSphereTracks ==
  last.op = "updateCulling" =>
    \A i \in 1..Len(entries) :
      entries[i].dyn =>
        LET sp == CurrentSphere(entries[i].obj, entries[i].padding)
        IN  /\ SphereOf(entries[i]) = sp
            /\ last.w[i] = [obj |-> entries[i].obj, c2 |-> sp.c2, r2 |-> sp.r2,
                            val |-> SphereMeetsFrustum(sp.c2, sp.r2)]

\* C8 witness: a dynamic entry and a static entry of the same object after
\* updateCulling, the static one registered later and already stale: the
\* object moved after both registrations and only the dynamic sphere followed.
C8_Witness ==
  /\ last.op = "updateCulling"
  /\ \E i, j \in 1..Len(entries) :
       /\ i < j /\ entries[i].obj = entries[j].obj
       /\ entries[i].dyn /\ ~entries[j].dyn
       /\ SphereOf(entries[j]) # SphereOf(entries[i])
       /\ SphereOf(entries[i]).c2 # 0

\* C10: invoking a handle whose entry is no longer in the registry leaves the
\* registry exactly as it was.
C10_SecondUnregisterNoOp ==
  [][(last'.op = "unregister"
        /\ \A i \in 1..Len(entries) : entries[i].key # <<0, last'.s>>)
     => entries' = entries]_vars

\* C10 witness: a handle has been invoked for the second time while another
\* entry of the same object is in the registry.
C10_Witness ==
  /\ last.op = "unregister" /\ last.b = "again" /\ ~last.found
  /\ HasEntry(entries, last.a)

\* The registry without the entry of one registration.
Without(ents, key) == SelectSeq(ents, LAMBDA e : e.key # key)

\* C11: every registerForCulling call appends an entry of its own, also for an
\* object that already has one; a handle removes its own entry and nothing
\* else; and updateCulling tests every entry that is in the registry and
\* leaves each object's visible flag at the result of its last entry, so an
\* entry whose sibling was unregistered still drives the flag.
C11_DoubleRegistrationIndependent ==
  [][/\ last'.op = "register" =>
          /\ Len(entries') = Len(entries) + 1
          /\ SubSeq(entries', 1, Len(entries)) = entries
          /\ entries'[Len(entries')].key = <<0, last'.s>>
          /\ entries'[Len(entries')].obj = last'.a
     /\ last'.op = "unregister" => entries' = Without(entries, <<0, last'.s>>)
     /\ last'.op = "updateCulling" =>
          /\ Len(last'.w) = Len(entries')
          /\ \A i \in 1..Len(entries') :
               /\ last'.w[i].obj = entries'[i].obj
               /\ last'.w[i].val
                    = SphereMeetsFrustum(entries[i].c2, entries[i].r2)'
               /\ IsLastEntryOf(i)' =>
                    visible'[entries'[i].obj] = last'.w[i].val]_vars

\* C11 witness: the mesh was registered twice, the first handle was invoked,
\* and updateCulling has just hidden the mesh through the second entry.
C11_Witness ==
  /\ last.op = "updateCulling"
  /\ Len(handles) = 2 /\ handles[1].obj = "mesh" /\ handles[2].obj = "mesh"
  /\ handles[1].called /\ ~handles[2].called
  /\ \E i \in 1..Len(entries) : entries[i].key = <<0, 2>>
  /\ "mesh" \in WrittenObjects(last) /\ ~visible["mesh"]

\* What an entry holds, apart from its identity, and how many entries of a
\* registry hold the same; two registries have the same contents when every
\* entry occurs equally often in both.
ContentOf(e) ==
  [obj |-> e.obj, c2 |-> e.c2, r2 |-> e.r2, padding |-> e.padding,
   dyn |-> e.dyn]
CountOf(ents, c) == Cardinality({i \in 1..Len(ents) : ContentOf(ents[i]) = c})
SameContents(e1, e2) ==
  /\ Len(e1) = Len(e2)
  /\ \A i \in 1..Len(e1) :
       CountOf(e1, ContentOf(e1[i])) = CountOf(e2, ContentOf(e1[i]))

\* What the disable function returned by the s-th enableAutoCulling call
\* would leave if it were invoked now.
AfterDisableFn(s) ==
  LET st == autoStates[s]
  IN  [entries |-> UnregisterWalk(<<st.root>>, s, st.options.recursive, FALSE,
                                  entries, st.unregisters, children).entries,
       watchedRoots |-> [watchedRoots EXCEPT ![st.root] = 0]]

\* C12, as stated: disableAutoCulling(root) leaves the registry contents and
\* the watched roots that the disable function returned by any
\* enableAutoCulling(root) call would leave from the same state; on a root
\* that is not watched it changes nothing.
C12_DisableMatchesDisableFn ==
  [][last'.op = "disableAutoCulling" =>
       /\ watchedRoots[last'.a] = 0 =>
            entries' = entries /\ watchedRoots' = watchedRoots
       /\ \A s \in 1..Len(autoStates) :
            autoStates[s].root = last'.a =>
              /\ SameContents(entries', AfterDisableFn(s).entries)
              /\ watchedRoots' = AfterDisableFn(s).watchedRoots]_vars

\* C13, as stated: for an entry registered with an explicit sphere, whatever
\* its dynamic and padding options, the sphere updateCulling tests is the
\* supplied one: same centre, same radius, no padding added.
C13_ExplicitSphereTested ==
  last.op = "updateCulling" =>
    \A i \in 1..Len(entries) :
      LET k == entries[i].key[2]
      IN  (entries[i].key[1] = 0 /\ handles[k].sphere # NoSphere) =>
            /\ last.w[i].c2 = handles[k].sphere.c2
            /\ last.w[i].r2 = handles[k].sphere.r2

\* The steps of a frame's log that are calls of one kind.
StepsOf(log, kind) == {i \in 1..Len(log) : log[i][1] = kind}

\* C14, as stated: every iteration of the render loop runs the per-frame
\* update callbacks, then updateCulling with the current camera exactly once,
\* then render exactly once, in this order.
C14_FrameOrder ==
  frames.n > 0 =>
    LET log == frames.log
    IN  /\ Cardinality(StepsOf(log, "updateCulling")) = 1
        /\ Cardinality(StepsOf(log, "render")) = 1
        /\ log[Len(log)][1] = "render"
        /\ log[Len(log) - 1] = <<"updateCulling", "userCamera">>
        /\ \A i \in StepsOf(log, "update") : i < Len(log) - 1

\* The grid of a terrain mesh: its cell width, the world x and z of vertex
\* column i and row j, and the stored height of vertex (i, j).
CellWidth(id) == SceneChild(id).size \div Segments(id)
VertexX(id, i) ==
  SceneChild(id).px - SceneChild(id).size \div 2 + i * CellWidth(id)
VertexZ(id, j) ==
  SceneChild(id).pz - SceneChild(id).size \div 2 + j * CellWidth(id)
StoredHeight(id, i, j) == SceneChild(id).h[j * (Segments(id) + 1) + i + 1]
TerrainQuery ==
  /\ glast.op = "getGroundHeight"
  /\ currentConfig.type = Some("terrain")
  /\ currentConfig.terrainMesh # None

\* C15, as stated: a terrain query exactly at the world (x, z) of grid vertex
\* (i, j), for any 0 <= i, j <= S, returns the vertex's stored height plus the
\* terrain's y position.
C15_VertexHeight ==
  TerrainQuery =>
    LET id == currentConfig.terrainMesh[1]
    IN  \A i, j \in 0..Segments(id) :
          (glast.x = VertexX(id, i) /\ glast.z = VertexZ(id, j)) =>
            RatEq(glast.h, Rat(StoredHeight(id, i, j) + SceneChild(id).py, 1))

\* The query cannot be answered from the ground surface.
OutsideTerrain(id, x, z) ==
  \/ x < VertexX(id, 0) \/ x > VertexX(id, Segments(id))
  \/ z < VertexZ(id, 0) \/ z > VertexZ(id, Segments(id))
RayMisses(targets, x, z) ==
  \A i \in 1..Len(targets) :
    LET t == RayTarget(targets[i])
    IN  ~(t.lo2 <= 2 * x /\ 2 * x <= t.hi2 /\ t.lo2 <= 2 * z /\ 2 * z <= t.hi2)
Unanswerable ==
  \/ /\ currentConfig.type = Some("terrain")
     /\ \/ currentConfig.terrainMesh = None
        \/ OutsideTerrain(currentConfig.terrainMesh[1], glast.x, glast.z)
  \/ /\ currentConfig.type = Some("raycast")
     /\ \/ currentConfig.raycastTargets = None
        \/ RayMisses(currentConfig.raycastTargets[1], glast.x, glast.z)

\* C16, as stated: a query that cannot be answered from the ground surface (a
\* terrain query outside the terrain's rectangle, a terrain config without a
\* mesh, a raycast without targets or without a hit) returns the config's
\* defaultHeight.
C16_FallbackIsDefault ==
  (glast.op = "getGroundHeight" /\ currentConfig.defaultHeight # None
     /\ Unanswerable)
  => glast.h = Rat(currentConfig.defaultHeight[1], 1)

\* C17: under a flat config with defaultHeight = h every query returns
\* exactly h, whatever terrainMesh and raycastTargets the config holds.
C17_FlatReturnsDefault ==
  (glast.op = "getGroundHeight" /\ currentConfig.type = Some("flat")
     /\ currentConfig.defaultHeight # None)
  => glast.h = Rat(currentConfig.defaultHeight[1], 1)

\* C17 witness: a flat config with a negative defaultHeight into which a
\* terrain mesh and raycast targets were merged, queried at a point that lies
\* on the terrain and under the platform.
C17_Witness ==
  /\ glast.op = "getGroundHeight" /\ currentConfig.type = Some("flat")
  /\ currentConfig.defaultHeight = Some(-3)
  /\ currentConfig.terrainMesh = Some("T1")
  /\ currentConfig.raycastTargets = Some(<<"floor", "platform">>)
  /\ glast.x = 2 /\ glast.z = 2 /\ glast.h = Rat(-3, 1)

\* C18: a terrain query strictly inside grid cell (i, j), at the offset
\* (a, b) from the cell's first corner in a cell of width w, returns
\* (h00 (w-a)(w-b) + h10 a (w-b) + h01 (w-a) b + h11 a b) / w^2 plus the
\* terrain's y position.
C18_BilinearInsideCell ==
  TerrainQuery =>
    LET id == currentConfig.terrainMesh[1]
        w  == CellWidth(id)
    IN  \A i, j \in 0..(Segments(id) - 1) :
          LET a == glast.x - VertexX(id, i)
              b == glast.z - VertexZ(id, j)
          IN  (0 < a /\ a < w /\ 0 < b /\ b < w) =>
                RatEq(glast.h,
                      Rat(StoredHeight(id, i, j) * (w - a) * (w - b)
                            + StoredHeight(id, i + 1, j) * a * (w - b)
                            + StoredHeight(id, i, j + 1) * (w - a) * b
                            + StoredHeight(id, i + 1, j + 1) * a * b
                            + SceneChild(id).py * w * w,
                          w * w))

\* C18 witness: the centre of the cell with corner heights 0, 2, 4, 6
\* returned 3.
C18_Witness ==
  /\ TerrainQuery /\ currentConfig.terrainMesh = Some("T1")
  /\ glast.x = -2 /\ glast.z = -2 /\ RatEq(glast.h, Rat(3, 1))
  /\ StoredHeight("T1", 0, 0) = 0 /\ StoredHeight("T1", 1, 0) = 2
  /\ StoredHeight("T1", 0, 1) = 4 /\ StoredHeight("T1", 1, 1) = 6

PlaceOps == {"placeObject", "placeObjectAt"}

\* C19: placeObject(object, x, z) and placeObjectAt(object, p) leave the
\* object at (x, getGroundHeight(x, z) + getObjectBottomOffset(object), z),
\* whatever p.y is and wherever the object was; the config and the other
\* objects' positions stay as they were.
C19_PlacementPosition ==
  [][glast'.op \in PlaceOps =>
       LET o == glast'.obj
       IN  /\ objPos'[o].x = glast'.x
           /\ objPos'[o].z = glast'.z
           /\ RatEq(objPos'[o].y,
                    RatAdd(GetGroundHeight(currentConfig, glast'.x, glast'.z),
                           GetObjectBottomOffset(o)))
           /\ currentConfig' = currentConfig
           /\ \A q \in Objects \ {o} : objPos'[q] = objPos[q]]_vars

\* C19 witness: an object that an earlier call had placed elsewhere was
\* placed with placeObjectAt and a vector of height 9, and did not end up at
\* a height derived from 9.
C19_Witness ==
  /\ glast.op = "placeObjectAt" /\ glast.py = 9 /\ glast.n = 2
  /\ glast.obj = "crate" /\ glast.x = 1 /\ glast.z = 1
  /\ currentConfig.type = Some("raycast")
  /\ RatEq(objPos["crate"].y, Rat(6, 1))
  /\ \A q \in Objects \ {"crate"} : objPos[q] = Origin

\* The object is made of exactly one sphere primitive.
LoneSphere(id) ==
  /\ Len(PlacedObject(id).meshes) = 1
  /\ PlacedObject(id).meshes[1].geo = "sphere"

\* C20, as stated: an object that is neither in the origin-at-base name set
\* nor made of exactly one sphere primitive is placed with a bottom offset of
\* half the height of its bounding box.
C20_HalfBoxHeight ==
  (glast.op \in PlaceOps /\ ~OriginAtBase(PlacedObject(glast.obj).name)
     /\ ~LoneSphere(glast.obj))
  => RatEq(objPos[glast.obj].y,
           RatAdd(glast.h, Rat(BoxHeight(PlacedObject(glast.obj).meshes), 2)))

\* C21: an object that is one sphere primitive of radius r > 0 and whose name
\* is not in the origin-at-base set is placed r above the ground height; on
\* flat ground of height h it ends at y = h + r.
C21_LoneSphereOffset ==
  (glast.op \in PlaceOps /\ LoneSphere(glast.obj)
     /\ ~OriginAtBase(PlacedObject(glast.obj).name))
  => LET r == PlacedObject(glast.obj).meshes[1].radius
     IN  /\ r > 0
         /\ RatEq(objPos[glast.obj].y, RatAdd(glast.h, Rat(r, 1)))
         /\ (currentConfig.type = Some("flat")
               /\ currentConfig.defaultHeight # None)
            => objPos[glast.obj].y
                 = Rat(currentConfig.defaultHeight[1] + r, 1)

\* C21 witness: the sphere of radius 2 was placed on flat ground of height 5
\* and is at y = 7.
C21_Witness ==
  /\ glast.op = "placeObject" /\ glast.obj = "ball"
  /\ currentConfig.type = Some("flat") /\ currentConfig.defaultHeight = Some(5)
  /\ objPos["ball"].y = Rat(7, 1)

\* The height a query returns under a config of the given type.
DispatchedHeight(cfg, x, z) ==
  CASE cfg.type = Some("terrain") -> GetTerrainHeight(cfg, x, z)
    [] cfg.type = Some("raycast") -> GetRaycastHeight(cfg, x, z)
    [] OTHER -> Rat(DefaultHeightOr0(cfg), 1)

\* C22: updateConfig(partial) gives every field of partial its new value and
\* leaves every other field as it was, for every partial config and every
\* current config; the next getGroundHeight answers by the merged type.
C22_UpdateConfigMerges ==
  [][/\ \A nc \in NewConfigs : ENABLED UpdateConfig(nc)
     /\ glast'.op = "updateConfig" =>
          \A f \in ConfigFields :
            currentConfig'[f] = IF f \in DOMAIN glast'.nc THEN glast'.nc[f]
                                ELSE currentConfig[f]
     /\ (glast'.op = "getGroundHeight" /\ glast.op = "updateConfig") =>
          /\ currentConfig' = currentConfig
          /\ glast'.h = DispatchedHeight(currentConfig, glast'.x, glast'.z)]_vars

\* C22 witness: type 'raycast' was merged into a terrain config that keeps
\* its terrain mesh, and the next query was answered by the raycast.
C22_Witness ==
  /\ glast.op = "getGroundHeight" /\ glast.x = 1 /\ glast.z = 1
  /\ currentConfig.type = Some("raycast")
  /\ currentConfig.terrainMesh = Some("T1")
  /\ currentConfig.raycastTargets = Some(<<"floor", "platform">>)
  /\ glast.h = Rat(3, 1)

\* ------------------------------------------------- scene switcher: claims
\* switchTo with the registered indices, an index past the end and -1, and
\* updateConfig on whatever placer getCurrentGlobalGroundPlacer returns.
SwitchIdx == {NoScene, 0, 1, 2, 3}
SwitchConfigs == {[defaultHeight |-> Some(5)], [type |-> Some("flat")]}

NextSwitch ==
  \/ \E idx \in SwitchIdx : SwitchTo(idx)
  \/ \E nc \in SwitchConfigs : UpdateGlobalConfig(nc)

SpecSwitch == InitCull /\ [][NextSwitch]_vars

\* The config a placer has after the given updateConfig calls.
RECURSIVE ConfigAfter(_, _)
ConfigAfter(cfg, partials) ==
  IF partials = <<>> THEN cfg
  ELSE ConfigAfter([f \in ConfigFields |->
                      IF f \in DOMAIN Head(partials) THEN Head(partials)[f]
                      ELSE cfg[f]],
                   Tail(partials))

\* C23: after any sequence of scene switches, an unregistered index
\* included, the global ground placer is one created by the setup of the
\* currently active scene, never one of a scene disposed since, and its
\* config comes from that scene's ground and its own updateConfig calls.
C23_PlacerOfActiveScene ==
  globalGroundPlacer # 0 =>
    LET p == placers[globalGroundPlacer]
    IN  /\ p.setup = currentCleanup
        /\ setups[p.setup].disposed = 0
        /\ p.config =
             ConfigAfter(
               DetectGroundConfig(
                 SceneGround(Scenes3[setups[p.setup].idx + 1])),
               p.updated)

\* C24: at most one scene is active: every setup but the last has been
\* disposed exactly once (so it was disposed before the next setup ran), no
\* dispose is called twice, and the last one is undisposed exactly while
\* it is the current scene.
C24_OneSceneActive ==
  \A k \in 1..Len(setups) :
    /\ setups[k].disposed \in {0, 1}
    /\ k < Len(setups) => setups[k].disposed = 1
    /\ setups[k].disposed = 0 <=> currentCleanup = k

\* C24 witness: a third setup has just run and the two before it have each
\* been disposed once.
C24_Witness ==
  /\ slast.op = "switchTo" /\ slast.ran
  /\ Len(setups) = 3
  /\ setups[1].disposed = 1 /\ setups[2].disposed = 1
  /\ setups[3].disposed = 0 /\ currentCleanup = 3

\* C29: currentSceneIdx names the scene whose setup ran last and is not
\* disposed, and switchTo(i) for a registered i ends with scene i active.
C29_IdxNamesActiveScene ==
  /\ currentSceneIdx # NoScene =>
       /\ currentCleanup # 0
       /\ setups[currentCleanup].idx = currentSceneIdx
       /\ setups[currentCleanup].disposed = 0
  /\ (slast.op = "switchTo" /\ SceneEntry(slast.idx) # None) =>
       /\ currentCleanup # 0
       /\ setups[currentCleanup].idx = slast.idx
       /\ setups[currentCleanup].disposed = 0

\* ---------------------------------------- interceptor: registry consistency
\* C25: while a root is watched with recursive: true, whatever add and remove
\* calls were made below it (remove of a node that is not a child of the
\* receiver included), every node below root that satisfies root's
\* predicate has a registry entry.
C25_DescendantsTracked ==
  \A r \in Nodes :
    (watchedRoots[r] # 0 /\ OptionsOf(r).recursive) =>
      \A n \in Subtree(r, children) \ {r} :
        Satisfies(n, OptionsOf(r).predicate) => HasEntry(entries, n)

\* C26: every registry entry that auto-registration created refers to a node
\* that is, or lies below, a root watched now.
C26_AutoEntriesUnderWatchedRoot ==
  \A i \in 1..Len(entries) :
    entries[i].key[1] > 0 => WatchedAbove(entries[i].obj) # {}

\* C27: the registry holds at most one auto-created entry per node.
C27_OneAutoEntryPerNode ==
  \A n \in Nodes : Cardinality(AutoEntriesOf(entries, n)) <= 1

\* ------------------------------------------ leaving the registry: visibility
\* Runs in which the mesh and its group are registered by hand and through
\* auto-culling of the scene, are moved and culled, and leave the registry
\* by a handle, by grp.remove(mesh) and by either way of disabling.  The
\* scene is enabled once.
NextHide ==
  \/ \E o \in CullObjects : Register(o, FALSE, 0, NoSphere)
  \/ \E k \in 1..MaxHandles : Unregister(k)
  \/ /\ autoStates = <<>>
     /\ EnableAutoCulling("scene", AutoOption(TRUE, "default"))
  \/ Remove("grp", "mesh")
  \/ \E s \in 1..MaxEnables : DisableFn(s)
  \/ DisableAutoCulling("scene")
  \/ \E z \in Coords : Move("mesh", z)
  \/ \E cz \in 0..MaxCoord : UpdateCulling(cz)

SpecHide == InitCull /\ [][NextHide]_vars

\* The operations that take entries out of the registry.
RemovalOps == {"unregister", "remove", "disableFn", "disableAutoCulling"}

\* C28: a step that removes entries (a handle, the patched remove, either
\* disable) changes no visible flag, and no step changes the flag of an
\* object that has no entry after it: an object hidden by its last
\* updateCulling stays hidden once it has left the registry.
C28_RemovalKeepsVisible ==
  [][/\ last'.op \in RemovalOps => visible' = visible
     /\ \A o \in Nodes :
          ~HasEntry(entries', o) => visible'[o] = visible[o]]_vars

\* C28 witness: the mesh was hidden by updateCulling, has left the registry,
\* and a later updateCulling that culled another entry left it hidden.
C28_Witness ==
  /\ last.op = "updateCulling" /\ last.found
  /\ ~HasEntry(entries, "mesh")
  /\ "mesh" \notin WrittenObjects(last)
  /\ visible["mesh"] = FALSE

\* ------------------------------------------------ recomputation and padding
\* Runs in which the mesh and the empty second group are registered without
\* a sphere, static or dynamic, with and without padding, and their bounds
\* are recomputed by the handle, by updateBoundsFor and by updateCulling.
BoundsObjects == {"mesh", "sub"}

NextBounds ==
  \/ \E o \in BoundsObjects, d \in BOOLEAN, pad \in Paddings :
       Register(o, d, pad, NoSphere)
  \/ \E k \in 1..MaxHandles : UpdateBounds(k)
  \/ \E o \in BoundsObjects : UpdateBoundsFor(o)
  \/ \E z \in Coords : Move("mesh", z)
  \/ \E cz \in 0..MaxCoord : UpdateCulling(cz)

SpecBounds == InitCull /\ [][NextBounds]_vars

RecomputeOps == {"updateBounds", "updateBoundsFor", "updateCulling"}

\* The radius (doubled) of an object's own bounds: the mesh's box has
\* radius 1, the fallback sphere of an empty group radius 3.
OwnRadius2(o) == IF "mesh" \in Subtree(o, children) THEN 2 ELSE 6

\* C30: recomputing an entry's bounds, by updateCulling for a dynamic entry,
\* by the handle's updateBounds or by updateBoundsFor, leaves the radius as
\* it was: the object's own radius plus the padding, once.
C30_PaddingAddedOnce ==
  [][last'.op \in RecomputeOps =>
       /\ Len(entries') = Len(entries)
       /\ \A i \in 1..Len(entries) :
            /\ entries'[i].r2 = entries[i].r2
            /\ entries'[i].r2 = OwnRadius2(entries[i].obj)
                                   + 2 * entries[i].padding]_vars

\* C30 witness: the mesh's dynamic entry with padding 1, computed at
\* registration and again by an updateCulling with the camera moved, has
\* just been recomputed by updateBoundsFor and has radius 1 + 1.
C30_Witness ==
  /\ last.op = "updateBoundsFor" /\ last.a = "mesh" /\ last.found
  /\ camZ = 1
  /\ Len(entries) >= 1
  /\ entries[1].obj = "mesh" /\ entries[1].dyn /\ entries[1].padding = 1
  /\ entries[1].r2 = 4

====
